---------------------------- MODULE Spec2Model ----------------------------
(***************************************************************************)
(* ClearedJobs scraper: the API-then-sitemap collection pipeline of        *)
(* src/main.js (collectFromApi, collectFromSitemaps, Actor.main), the      *)
(* stand-alone API collectors of part_001 and part_002, and the            *)
(* CheerioCrawler request handlers of src/main.js (first and third         *)
(* program of the file), whose handlers interleave at every await.         *)
(* The field resolvers (mapApiJob and the item literal of part_002) and    *)
(* normalizeSpace are pure functions, applied to inputs drawn by InitFields*)
(* and InitText.                                                           *)
(*                                                                         *)
(* The HTTP transport, the HTML parser and the dataset are external: every *)
(* response is a nondeterministic choice made when the request is issued,  *)
(* and the dataset accepts every record handed to pushData.                *)
(*                                                                         *)
(* URLs are small integers: the value n stands for the canonical href      *)
(* `${BASE}/job/n`, the value -n for the relative form '/job/n' of the     *)
(* same page.  Job ids are 1..NumIds; NULL stands for null/undefined.      *)
(***************************************************************************)
EXTENDS Integers, Sequences, FiniteSets, TLC

(* ------------------------------ bounds -------------------------------- *)
MaxQuota == 2        \* results_wanted ranges over 1..MaxQuota in the pipeline
MaxQuotaApi == 3     \* results_wanted ranges over 1..MaxQuotaApi for the API collectors alone
MaxPageBudget == 2   \* max_pages ranges over 1..MaxPageBudget
MaxSrvPages == 2     \* a paged listing source has 1..MaxSrvPages pages
NumUrls == 3         \* distinct job pages of the site
NumIds == 1          \* distinct job ids
MaxItems == 2        \* longest data array of a listing response
MaxSitemaps == 2     \* most child sitemaps named by the index
MaxLocs == 1         \* most <loc> entries of a child sitemap
NumLocUrls == 2      \* distinct job pages named by the sitemaps
NumLdUrls == 1       \* distinct urls named by the JSON-LD blocks of job pages
MaxLinks == 2        \* most job links of a listing page seen by a crawler
MaxStartUrls == 2    \* most start URLs handed to a crawler
MaxFieldLen == 2     \* longest string of a field handed to a field resolver
MaxTextLen == 5      \* longest string handed to normalizeSpace on its own
MaxChunk == 3        \* most items of a chunk whose mappers are followed one by one
MaxSitemapsWide == 3 \* most child sitemaps when the sitemap strategy is studied alone
MaxLocsWide == 2     \* most <loc> entries of a child sitemap in that case
MaxPageItems == 25   \* longest data array of a listing page whose chunks are followed
MaxDescLen == 3      \* longest description text of a record handed to the HTML merge
MaxDetailReqs == 11  \* most job pages queued at once in a crawl followed for overshoot

(* -------------------------- program constants -------------------------- *)
MAX_ATTEMPTS == 3    \* retry loops: while (attempt < 3 && ...)
CONCURRENCY == 12    \* batch width of collectFromApi in main.js
CONCURRENCY_P1 == 15 \* batch width of collectFromApi in part_001
MAX_CONCURRENCY == 10 \* maxConcurrency of both CheerioCrawlers
MIN_TEXT == 500      \* description_text shorter than this counts as a gap

NULL == 0

VARIABLES
    variant,         \* which program runs: "main", "p1" (part_001), "p2" (part_002),
                     \* "c1" / "c3" (first / third program of main.js, the crawlers)
    RESULTS_WANTED,  \* Math.max(1, +results_wanted)
    MAX_PAGES,       \* Math.max(1, +max_pages)
    srvMode,         \* the listing source: "any" response, "down" (always 5xx), "paged";
                     \* "sitemaps": not asked, the sitemap strategy runs alone
    srvPages,        \* pages of a paged listing source (pages below it carry links.next)
    pc,              \* position of the run
    bootAttempt,     \* attempt of the bootstrap loop of Actor.main
    seen,            \* the shared Set of identity keys (seenJobs of the third program)
    sink,            \* records handed to dataset.pushData, in order
    totalSaved,      \* totalSaved of Actor.main
    saved,           \* saved of the running strategy (collectFromApi / collectFromSitemaps),
                     \* the shared counter saved of a crawler
    page,            \* page of collectFromApi
    attempt,         \* attempt of the listing retry loop
    json,            \* parsed listing response of the current page (length of data, links.next)
    batch,           \* number of items of the page not yet enriched
    results,         \* results of the current chunk not yet iterated
    apiThrew,        \* collectFromApi ended by an exception
    smWanted,        \* resultsWanted handed to collectFromSitemaps (NULL: not invoked)
    jobSitemaps,     \* child sitemaps still to visit
    urls,            \* candidate job URLs of collectFromSitemaps
    urlIdx,          \* position of the for-of loop over urls
    hist,            \* history of the requests issued (observation only)
    collectDetails,  \* input collectDetails of a crawler
    requestQueue,    \* requests of the crawler's queue not yet handled
    enqueued,        \* every request ever added to the queue (its uniqueKey set)
    active,          \* request handlers suspended at an await
    pagesHit,        \* LIST pages a crawler has processed
    srcJob,          \* a listing item (job) handed to a field resolver
    srcDetail,       \* its detail sub-resource
    srcAdditional,   \* its additional sub-resource
    resolved,        \* the fields of the record the resolver returned
    text,            \* a string handed to normalizeSpace
    normOnce,        \* normalizeSpace(text)
    normTwice,       \* normalizeSpace(normalizeSpace(text))
    apiItem,         \* item of a mapper as mapApiJob returned it
    htmlItem,        \* what fetchJobPage returned for item.url
    merged,          \* item as the mapper returns it
    chunk,           \* the listing items of the chunk being enriched, in index order
    settled,         \* per index of chunk: the value its mapper resolved to, if it has
    completion,      \* indices of chunk in the order their mappers resolved
    inFlight,        \* number of mappers of the chunk that have not returned
    routeTable,      \* the namedRoutes table of the bootstrap page, as buildRouteResolver finds it
    routes,          \* routes of Actor.main: per name, what buildRouteResolver returned
    fdAt,            \* position of one call of fetchDetails
    pending,         \* sub-resource requests of that call in flight
    issued,          \* sub-resource requests of that call issued so far, in order
    fdResults        \* per sub-resource, how its request ended

inputs == <<variant, RESULTS_WANTED, MAX_PAGES, srvMode, srvPages>>
apiVars == <<saved, page, attempt, json, batch, results>>
smVars == <<smWanted, jobSitemaps, urls, urlIdx>>
pipeVars == <<inputs, pc, bootAttempt, seen, sink, totalSaved, apiVars, apiThrew, smVars, hist>>
crawlVars == <<collectDetails, requestQueue, enqueued, active, pagesHit>>
mergeVars == <<apiItem, htmlItem, merged>>
fieldVars == <<srcJob, srcDetail, srcAdditional, resolved, text, normOnce, normTwice, mergeVars>>
orderVars == <<chunk, settled, completion, inFlight>>
detailVars == <<routeTable, routes, fdAt, pending, issued, fdResults>>
\* what a crawler never touches
idleInCrawl == <<bootAttempt, totalSaved, page, attempt, json, batch, results, apiThrew,
                 smVars, fieldVars, orderVars, detailVars>>

vars == <<pipeVars, crawlVars, fieldVars, orderVars, detailVars>>

(* ------------------------------ data ----------------------------------- *)
Urls == 1..NumUrls
Ids == 1..NumIds
RawUrls == Urls \cup {-1}

\* new URL(raw, BASE).href
Href(raw) == IF raw < 0 THEN -raw ELSE raw

\* `${BASE}/job/${id}`
JobUrl(id) == id

\* a || b on values where NULL is the only falsy one
Or(a, b) == IF a # NULL THEN a ELSE b

\* listing items: tag stands for the rest of the item's content
GoodJobs ==
    {[id |-> i, url |-> u, tag |-> 1] : i \in Ids \cup {NULL}, u \in RawUrls \cup {NULL}}
    \cup {[id |-> NULL, url |-> NULL, tag |-> 2]}

\* detail / additional sub-resource views; EmptyView is {} (failed fetch)
EmptyView == [id |-> NULL, url |-> NULL]
Views == {EmptyView} \cup {[id |-> i, url |-> NULL] : i \in Ids}

NoJson == [set |-> FALSE, len |-> 0, next |-> "none"]

SeqsUpTo(S, n) == UNION {[1..k -> S] : k \in 0..n}

Min(a, b) == IF a < b THEN a ELSE b

\* main.js 409-414, 442-445 (source, id, url of the mapped record)
mapApiJob(job, detail, additional, source) ==
    LET rawUrl == Or(job.url, Or(detail.url, Or(additional.url,
                     IF job.id # NULL THEN JobUrl(job.id) ELSE NULL)))
        id == Or(job.id, Or(detail.id, additional.id))
        url0 == IF rawUrl # NULL THEN Href(rawUrl) ELSE NULL
        url == IF url0 = NULL /\ id # NULL THEN JobUrl(id) ELSE url0
    IN [source |-> source, id |-> id, url |-> url, tag |-> job.tag]

\* part_001 72-75, 118-120
mapApiJobP1(job, detail) ==
    LET id == Or(job.id, detail.id)
        raw == Or(job.url, Or(detail.url, IF id # NULL THEN JobUrl(id) ELSE NULL))
        url == IF raw # NULL THEN Href(raw) ELSE NULL
    IN [source |-> "api", id |-> id, url |-> url, tag |-> job.tag]

\* const key = item.url || item.id || JSON.stringify(item)
ApiKey(item) ==
    IF item.url # NULL THEN <<"url", item.url>>
    ELSE IF item.id # NULL THEN <<"id", item.id>>
    ELSE <<"json", item.tag>>

\* what reaches the dataset of a record
Stored(item) == [source |-> item.source, id |-> item.id, url |-> item.url]

\* the resolved identity key of a persisted record: url, else id
RecKey(r) ==
    IF r.url # NULL THEN <<"url", r.url>>
    ELSE IF r.id # NULL THEN <<"id", r.id>>
    ELSE <<"none", 0>>

(* --------------------------- history ----------------------------------- *)
InitHist ==
    [listFetches |-> [p \in 1..(MaxPageBudget + 1) |-> 0],  \* listing requests per page
     lateFetch |-> FALSE,     \* a listing request was issued with saved >= quota
     smFetches |-> 0,         \* requests issued by collectFromSitemaps
     smFailures |-> 0,        \* those of them that threw or were answered with status >= 400
     lastStatus |-> "none",   \* answer to the last attempt of the retry loop that is running
     emptyList |-> FALSE,     \* a LIST page of a crawler yielded no job
     nonJson |-> FALSE,       \* a listing answer below 500 was not a JSON object
     thrown |-> "none"]       \* how the catch classed the error of the last listing attempt

Bump(h, field) == [h EXCEPT ![field] = @ + 1]

(* ------------------- decisions of the collectors ----------------------- *)
RetryAllowed_OnceMore(n) == n <= MAX_ATTEMPTS

\* while (attempt < 3 && !searchPageHtml), while (attempt < 3 && !json)
RetryAllowed(n) == n < MAX_ATTEMPTS

ApiLoopCond_NoBudget(s, wanted, p, maxPages) == s < wanted

\* while (saved < resultsWanted && page <= maxPages)
ApiLoopCond(s, wanted, p, maxPages) == s < wanted /\ p <= maxPages

QuotaMet_OnExcess(s, wanted) == s > wanted

\* if (saved >= resultsWanted) break;
QuotaMet(s, wanted) == s >= wanted

FallbackNeeded_Inverted(total, wanted) == total > wanted

\* if (totalSaved < RESULTS_WANTED)
FallbackNeeded(total, wanted) == total < wanted

\* resultsWanted: RESULTS_WANTED - totalSaved
RemainingQuota(wanted, total) == wanted - total

\* totalSaved += await collectFromApi(...): the sum is assigned only when the
\* awaited call returns; an exception leaves totalSaved as it was
TotalAfterReturn(total, returned) == total + returned
TotalAfterThrow(total, persisted) == total

UrlCapReached_Triple(n, wanted) == n >= wanted * 3

\* if (urls.length >= resultsWanted * 2) break;
UrlCapReached(n, wanted) == n >= wanted * 2

\* number of entries of the index that name an active-jobs sitemap
\* (-1: the index request throws)
SitemapCounts == -1..(IF srvMode = "sitemaps" THEN MaxSitemapsWide ELSE MaxSitemaps)

\* the <loc> entries of a child sitemap
LocLists ==
    IF srvMode = "sitemaps" THEN SeqsUpTo({1}, MaxLocsWide)
    ELSE SeqsUpTo(1..NumLocUrls, MaxLocs)

StopPaging_OnBudgetOnly(v, next, p, maxPages) == v = "p1" /\ p >= maxPages

\* if (!nextLink) break;   and part_001: if (!nextLink || page >= maxPages) break;
StopPaging(v, next, p, maxPages) == next = "none" \/ (v = "p1" /\ p >= maxPages)

(* ----------------------------- responses ------------------------------- *)
NextKinds == {"none", "abs", "rel", "nonstring"}

\* A listing response: status class, whether the body parses to a JSON
\* object, the length of its data array and the kind of links.next
\* ("throw": a transport error).  The items themselves are drawn when the
\* collector first looks at them.
ListingResponses ==
    {[status |-> s, kind |-> "nonjson", len |-> 0, next |-> "none"] : s \in {"throw", "5xx", "200", "4xx"}}
    \cup {[status |-> s, kind |-> "json", len |-> n, next |-> x] :
             s \in {"200", "4xx"}, n \in 0..MaxItems, x \in NextKinds}

\* the responses the listing source can give for page p
Responses(p) ==
    CASE srvMode = "any" -> ListingResponses
      [] srvMode = "down" -> {r \in ListingResponses : r.status = "5xx"}
      [] srvMode = "paged" ->
            {r \in ListingResponses :
                /\ r.status = "200" /\ r.kind = "json" /\ r.len > 0
                /\ IF p < srvPages THEN r.next \in {"abs", "rel"} ELSE r.next = "none"}

\* a paged source serves well-formed items only
ItemsMayBeMalformed == srvMode = "any"

\* the answer to an attempt, kept while its retry loop goes on
\* err.message of an error thrown by the listing request
ErrorMessages == {"ECONNRESET", "proxy", "595", "timeout"}

\* main.js 639, part_001 182: errorMsg.includes('ECONNRESET') ||
\* errorMsg.includes('proxy') || errorMsg.includes('595')
IsTransient(msg) == msg \in {"ECONNRESET", "proxy", "595"}

CatchRetries_TransientOnly(msg, n) == IsTransient(msg) /\ RetryAllowed(n)

\* main.js 636-648, part_001 180-191: the catch block picks a log line by
\* the error's class, sleeps if attempt < 3 and falls back to the loop test
CatchRetries(msg, n) == RetryAllowed(n)

NoteThrown(h, r, msg) ==
    [h EXCEPT !.thrown = IF r.status # "throw" THEN "none"
                         ELSE IF IsTransient(msg) THEN "transient" ELSE "other"]

NoteStatus(h, goesOn, status) ==
    [h EXCEPT !.lastStatus = IF goesOn THEN status ELSE "none"]

\* bookkeeping of the jobs a LIST page of a crawler yielded
NoteYield(h, found) == [h EXCEPT !.emptyList = @ \/ found = <<>>]

\* bookkeeping of one listing request
NoteListing(h, p, s) ==
    [h EXCEPT !.listFetches[p] = @ + 1,
              !.lateFetch = @ \/ s >= RESULTS_WANTED]

Retryable_OrNotJson(r) == r.status \in {"5xx", "throw"} \/ r.kind = "nonjson"

\* the attempt ends in `continue` (statusCode >= 500) or in the catch
Retryable(r) == r.status \in {"5xx", "throw"}

\* bookkeeping of the body of a listing answer
NoteBody(h, r) ==
    [h EXCEPT !.nonJson = @ \/ (r.status \in {"200", "4xx"} /\ r.kind = "nonjson")]

(* ------------------------- strings and fields --------------------------- *)
\* strings are sequences of characters; " " and "\t" stand for the
\* characters matched by \s, "A" and "B" for the others
Chars == {"A", "B", " ", "\t"}
IsSpace(c) == c \in {" ", "\t"}
Strs(alphabet, n) == UNION {[1..k -> alphabet] : k \in 0..n}

RECURSIVE SkipSpace(_)
\* the rest of the string after the whitespace it starts with
SkipSpace(q) == IF q # <<>> /\ IsSpace(Head(q)) THEN SkipSpace(Tail(q)) ELSE q

RECURSIVE ReplaceSpaceRuns_Pairs(_)
ReplaceSpaceRuns_Pairs(q) ==
    IF q = <<>> THEN <<>>
    ELSE IF Len(q) >= 2 /\ IsSpace(q[1]) /\ IsSpace(q[2])
    THEN <<" ">> \o ReplaceSpaceRuns_Pairs(Tail(Tail(q)))
    ELSE <<Head(q)>> \o ReplaceSpaceRuns_Pairs(Tail(q))

RECURSIVE ReplaceSpaceRuns(_)
\* text.replace(/\s+/g, ' ')
ReplaceSpaceRuns(q) ==
    IF q = <<>> THEN <<>>
    ELSE IF IsSpace(Head(q)) THEN <<" ">> \o ReplaceSpaceRuns(SkipSpace(Tail(q)))
    ELSE <<Head(q)>> \o ReplaceSpaceRuns(Tail(q))

RECURSIVE TrimEnd(_)
TrimEnd(q) == IF q # <<>> /\ IsSpace(q[Len(q)]) THEN TrimEnd(SubSeq(q, 1, Len(q) - 1)) ELSE q

\* String.prototype.trim
Trim(q) == TrimEnd(SkipSpace(q))

\* main.js 324-326, part_001 49-51
normalizeSpace(q) == Trim(ReplaceSpaceRuns(q))

\* a || b on strings: the empty string (and undefined, which it also stands
\* for) is falsy
StrOr(a, b) == IF a # <<>> THEN a ELSE b

\* values that are a number, a string or absent (undefined / null)
NoVal == [k |-> "none", n |-> 0, s |-> <<>>]
NumVal(n) == [k |-> "num", n |-> n, s |-> <<>>]
StrVal(q) == [k |-> "str", n |-> 0, s |-> q]
Truthy(v) == (v.k = "num" /\ v.n # 0) \/ (v.k = "str" /\ v.s # <<>>)
ValOr(a, b) == IF Truthy(a) THEN a ELSE b

RECURSIVE Digits(_)
\* the decimal digits of a natural number
Digits(n) ==
    LET d == <<"0", "1", "2", "3", "4", "5", "6", "7", "8", "9">>
    IN IF n < 10 THEN <<d[n + 1]>> ELSE Digits(n \div 10) \o <<d[(n % 10) + 1]>>

\* String(v) of a number or a string
String(v) == IF v.k = "num" THEN StrVal(Digits(v.n)) ELSE v

\* what a resolver reads of a listing item or of a sub-resource; the
\* block* fields are the values of its customBlockList entries
NoSource ==
    [location |-> <<>>, security_clearance |-> <<>>, job_type |-> <<>>, salary |-> NoVal,
     salary_min |-> NoVal, salary_max |-> NoVal,
     blockLocation |-> <<>>, blockClearance |-> <<>>, blockSalary |-> <<>>]

NoItem == [location |-> <<>>, security_clearance |-> <<>>, salary |-> NoVal]

\* main.js 371-380: extractFromBlocks normalizes the value it finds
extractFromBlocks(value) == normalizeSpace(value)

\* main.js 382-389
extractClearance(j) ==
    StrOr(extractFromBlocks(j.blockClearance), StrOr(j.security_clearance, j.job_type))

\* main.js 422-456: location, security_clearance and salary of mapApiJob
ResolveMain(j, d, a) ==
    [location |-> normalizeSpace(StrOr(j.location, StrOr(d.location, StrOr(a.location,
                      extractFromBlocks(j.blockLocation))))),
     security_clearance |-> StrOr(d.security_clearance, StrOr(a.security_clearance,
                      StrOr(extractClearance(j), StrOr(j.job_type, j.security_clearance)))),
     salary |-> ValOr(d.salary, ValOr(d.salary_min, ValOr(d.salary_max,
                ValOr(a.salary, ValOr(a.salary_min, ValOr(a.salary_max,
                ValOr(j.salary, ValOr(j.salary_min, ValOr(j.salary_max,
                IF extractFromBlocks(j.blockSalary) # <<>>
                THEN StrVal(extractFromBlocks(j.blockSalary)) ELSE NoVal)))))))))]

\* part_001 83-125 (a is not read: the collector fetches no additional view)
ResolveP1(j, d, a) ==
    LET salary == ValOr(d.salary, j.salary) IN
    [location |-> normalizeSpace(StrOr(d.location, j.location)),
     security_clearance |-> StrOr(extractFromBlocks(d.blockClearance),
                                  StrOr(d.security_clearance, j.security_clearance)),
     salary |-> IF Truthy(salary) THEN String(salary) ELSE NoVal]

\* part_002 214-229: extractCustom returns the block's value as it is
ResolveP2(j, d, a) ==
    [location |-> StrOr(d.location, StrOr(j.location, StrOr(d.blockLocation, j.blockLocation))),
     security_clearance |-> StrOr(j.blockClearance, d.blockClearance),
     salary |-> IF StrOr(d.blockSalary, j.blockSalary) # <<>>
                THEN StrVal(StrOr(d.blockSalary, j.blockSalary)) ELSE NoVal]

\* the field resolver of each API collector
Resolve(v, j, d, a) ==
    CASE v = "main" -> ResolveMain(j, d, a)
      [] v = "p1" -> ResolveP1(j, d, a)
      [] OTHER -> ResolveP2(j, d, a)

\* the fields of a record the HTML enrichment reads and writes
NoPage ==
    [description_html |-> <<>>, description_text |-> <<>>, job_type |-> <<>>,
     location |-> <<>>, security_clearance |-> <<>>, salary |-> NoVal]

\* main.js 672-682: the gaps that make the mapper fetch the job page
\* (item.url is set and not in seen)
HasGaps(item) ==
    \/ item.description_html = <<>> \/ Len(item.description_text) < MIN_TEXT
    \/ item.job_type = <<>> \/ item.security_clearance = <<>>
    \/ item.location = <<>> \/ ~Truthy(item.salary)

\* main.js 685-698: item after the merge of htmlItem
MergeHtml(item, h) ==
    LET takes == item.description_html = <<>>
                 \/ Len(h.description_text) > Len(item.description_text)
    IN [description_html |-> IF takes THEN StrOr(h.description_html, item.description_html)
                             ELSE item.description_html,
        description_text |-> IF takes THEN StrOr(h.description_text, item.description_text)
                             ELSE item.description_text,
        job_type |-> StrOr(item.job_type, h.job_type),
        location |-> StrOr(item.location, h.location),
        security_clearance |-> StrOr(item.security_clearance, h.security_clearance),
        salary |-> ValOr(item.salary, ValOr(h.salary, NoVal))]

NoMerge == apiItem = NoPage /\ htmlItem = NoPage /\ merged = NoPage

\* no resolver input is under consideration
NoFields ==
    /\ srcJob = NoSource /\ srcDetail = NoSource /\ srcAdditional = NoSource
    /\ resolved = NoItem
    /\ text = <<>> /\ normOnce = <<>> /\ normTwice = <<>>
    /\ NoMerge

\* no chunk is followed mapper by mapper
NoChunk == chunk = <<>> /\ settled = <<>> /\ completion = <<>> /\ inFlight = 0

(* ------------------------- routes and fetchDetails --------------------- *)
RouteNames == {"index", "show", "additional"}

\* what html.match(/namedRoutes: .../) and safeJsonParse make of the page:
\* no table, a table that is no JSON, or a table defining some of the names
RouteTables ==
    {[found |-> FALSE, parses |-> FALSE, names |-> {}],
     [found |-> TRUE, parses |-> FALSE, names |-> {}]}
    \cup {[found |-> TRUE, parses |-> TRUE, names |-> N] : N \in SUBSET RouteNames}

\* the object {}: no property is defined
NoRoutes == [name \in RouteNames |-> "undefined"]

\* make(name) || default: the table's route if it defines one
\* (main.js 342-354), the hardcoded path otherwise (main.js 356-363)
RouteOrDefault(table, name) == IF name \in table.names THEN "named" ELSE "default"

\* main.js 336-364: `if (!routeMatch) return {}` comes before the defaults
buildRouteResolver(table) ==
    IF ~table.found THEN NoRoutes
    ELSE [name \in RouteNames |-> RouteOrDefault(table, name)]

\* typeof f === 'function'
Callable(f) == f # "undefined"

\* how a sub-resource request can end: data below 400, a status of 400 or
\* above, or a throw
Outcomes == {"data", "4xx", "5xx", "throw"}

NoResults == [detail |-> "none", additional |-> "none"]

\* no call of fetchDetails is followed
NoDetails ==
    /\ routeTable = [found |-> FALSE, parses |-> FALSE, names |-> {}]
    /\ routes = NoRoutes
    /\ fdAt = "idle" /\ pending = {} /\ issued = <<>> /\ fdResults = NoResults

(* ------------------------------ Init ----------------------------------- *)
\* the state of a run before its first step
InitRun ==
    /\ bootAttempt = 0
    /\ seen = {}
    /\ sink = <<>>
    /\ totalSaved = 0
    /\ saved = 0
    /\ page = 1
    /\ attempt = 0
    /\ json = NoJson
    /\ batch = 0
    /\ results = <<>>
    /\ apiThrew = FALSE
    /\ smWanted = NULL
    /\ jobSitemaps = 0
    /\ urls = <<>>
    /\ urlIdx = 1
    /\ hist = InitHist

InitCommon ==
    /\ MAX_PAGES \in 1..MaxPageBudget
    /\ pc = CASE variant = "main" -> "boot"
              [] variant \in {"c1", "c3"} -> "crawl"
              [] OTHER -> "api_head"
    /\ InitRun
    /\ NoFields
    /\ NoChunk
    /\ NoDetails

\* no crawler is constructed
NoCrawler ==
    /\ collectDetails = FALSE
    /\ requestQueue = {}
    /\ enqueued = {}
    /\ active = {}
    /\ pagesHit = 0

\* the API-then-sitemap pipeline of main.js
Init ==
    /\ NoCrawler
    /\ variant = "main"
    /\ srvMode \in {"any", "down"}
    /\ srvPages = 0
    /\ RESULTS_WANTED \in 1..MaxQuota
    /\ InitCommon

\* the three API collectors, against any source, against a source that is
\* down and against paged sources
InitApi ==
    /\ NoCrawler
    /\ variant \in {"main", "p1", "p2"}
    /\ \/ srvMode \in {"any", "down"} /\ srvPages = 0
       \/ srvMode = "paged" /\ srvPages \in 1..MaxSrvPages
    /\ RESULTS_WANTED \in 1..MaxQuotaApi
    /\ InitCommon

(* ---------------------- Actor.main: bootstrap -------------------------- *)
\* main.js 824-860: one iteration of the bootstrap loop, with the throw of
\* line 853 / 859 when the loop gives up
BootFetch ==
    /\ variant = "main" /\ pc = "boot"
    /\ \E r \in {"ok", "empty", "403", "4xx", "5xx", "throw"} :
        LET n == bootAttempt + 1 IN
        /\ bootAttempt' = n
        /\ pc' = IF r = "ok" THEN "api_head"
                 ELSE IF RetryAllowed(n) THEN "boot" ELSE "failed"
        /\ hist' = NoteStatus(hist, r # "ok" /\ RetryAllowed(n), r)
    /\ UNCHANGED <<fieldVars, orderVars, detailVars, crawlVars, inputs, seen, sink, totalSaved, apiVars, apiThrew, smVars>>

(* --------------------------- collectFromApi ---------------------------- *)
ApiLocals(s, p, a, j, b, r) ==
    /\ saved' = s /\ page' = p /\ attempt' = a /\ json' = j /\ batch' = b /\ results' = r

\* the collector goes on: only its locals change
ApiStep(to, s, p, a, j, b, r) ==
    /\ pc' = to
    /\ ApiLocals(s, p, a, j, b, r)
    /\ UNCHANGED <<totalSaved, apiThrew>>

ApiThrows_Uncaught ==
    /\ apiThrew' = TRUE
    /\ totalSaved' = totalSaved
    /\ pc' = "failed"
    /\ ApiLocals(0, 1, 0, NoJson, 0, <<>>)

\* an exception leaves collectFromApi: the orchestrator's catch
\* (main.js 890-893); part_001 has none and the run fails
ApiThrows ==
    /\ apiThrew' = TRUE
    /\ totalSaved' = TotalAfterThrow(totalSaved, saved)
    /\ pc' = IF variant = "main" THEN "fallback" ELSE "failed"
    /\ ApiLocals(0, 1, 0, NoJson, 0, <<>>)

\* return saved, and the caller's use of it (main.js 880, part_001 307)
ApiReturns ==
    /\ apiThrew' = apiThrew
    /\ totalSaved' = TotalAfterReturn(totalSaved, saved)
    /\ pc' = IF variant = "main" THEN "fallback" ELSE "done"
    /\ ApiLocals(0, 1, 0, NoJson, 0, <<>>)

\* main.js 609-612, part_001 151-156
ApiHead ==
    /\ variant \in {"main", "p1"} /\ pc = "api_head"
    /\ IF ApiLoopCond(saved, RESULTS_WANTED, page, MAX_PAGES)
       THEN ApiStep("api_fetch", saved, page, 0, NoJson, 0, <<>>)
       ELSE ApiReturns
    /\ UNCHANGED <<fieldVars, orderVars, detailVars, crawlVars, inputs, bootAttempt, seen, sink, smVars, hist>>

\* main.js 613-661, part_001 157-200: one attempt of the listing request,
\* then the checks that follow the retry loop when it ends
ApiFetch ==
    /\ variant \in {"main", "p1"} /\ pc = "api_fetch"
    /\ \E r \in Responses(page), msg \in ErrorMessages :
        LET n == attempt + 1 IN
        /\ r.status # "throw" => msg = "timeout"
        /\ hist' = NoteThrown(NoteBody(NoteStatus(NoteListing(hist, page, saved),
                                                  Retryable(r) /\ RetryAllowed(n), r.status), r),
                              r, msg)
        /\ IF Retryable(r)
           THEN IF (IF r.status = "throw" THEN CatchRetries(msg, n) ELSE RetryAllowed(n))
                THEN ApiStep("api_fetch", saved, page, n, json, batch, results)
                ELSE ApiReturns                            \* line 651
           ELSE IF r.kind = "nonjson" \/ r.len = 0
           THEN ApiReturns                                 \* lines 634 and 651, line 658
           ELSE ApiStep("api_batch", saved, page, n,
                        [set |-> TRUE, len |-> r.len, next |-> r.next], r.len, results)
    /\ UNCHANGED <<fieldVars, orderVars, detailVars, crawlVars, inputs, bootAttempt, seen, sink, smVars>>

\* the records one mapper of the chunk can return: the item is any
\* well-formed listing item, its detail / additional views any outcome of
\* fetchDetails (main.js 669-670, part_001 212-232)
MappedItems ==
    IF variant = "main"
    THEN {mapApiJob(j, d, a, "api") : j \in GoodJobs, d \in Views, a \in Views}
    ELSE {mapApiJobP1(j, d) : j \in GoodJobs, d \in Views}

ChunkSize_None(v, n) == 0

ChunkSize_Whole(v, b) == b

\* const chunk = batch.splice(0, CONCURRENCY)
ChunkSize(v, b) == Min(IF v = "main" THEN CONCURRENCY ELSE CONCURRENCY_P1, b)

\* main.js 665-701, part_001 208-234: one chunk is enriched (Promise.all);
\* a mapper that throws on a malformed item rejects the whole call
ApiBatch ==
    /\ variant \in {"main", "p1"} /\ pc = "api_batch"
    /\ IF batch > 0 /\ ~QuotaMet(saved, RESULTS_WANTED)
       THEN LET k == ChunkSize(variant, batch) IN
            \/ ItemsMayBeMalformed /\ ApiThrows
            \/ \E res \in [1..k -> MappedItems] :
                  ApiStep("api_persist", saved, page, attempt, json, batch - k, res)
       ELSE ApiStep("api_next", saved, page, attempt, json, batch, results)
    /\ UNCHANGED <<fieldVars, orderVars, detailVars, crawlVars, inputs, bootAttempt, seen, sink, smVars, hist>>

\* main.js 703-712, part_001 236-243: one iteration of for (const item of results)
ApiPersist ==
    /\ variant \in {"main", "p1"} /\ pc = "api_persist"
    /\ IF results = <<>>
       THEN /\ ApiStep("api_batch", saved, page, attempt, json, batch, results)
            /\ UNCHANGED <<seen, sink>>
       ELSE LET item == Head(results)
                key == ApiKey(item)
            IN IF QuotaMet(saved, RESULTS_WANTED)
               THEN /\ ApiStep("api_batch", saved, page, attempt, json, batch, <<>>)   \* break
                    /\ UNCHANGED <<seen, sink>>
               ELSE IF key \in seen
               THEN /\ ApiStep(pc, saved, page, attempt, json, batch, Tail(results))   \* continue
                    /\ UNCHANGED <<seen, sink>>
               ELSE /\ seen' = seen \cup {key}
                    /\ sink' = Append(sink, Stored(item))
                    /\ ApiStep(pc, saved + 1, page, attempt, json, batch, Tail(results))
    /\ UNCHANGED <<fieldVars, orderVars, detailVars, crawlVars, inputs, bootAttempt, smVars, hist>>

\* main.js 715-720 / part_001 249-255
ApiNext ==
    /\ variant \in {"main", "p1"} /\ pc = "api_next"
    /\ IF StopPaging(variant, json.next, page, MAX_PAGES)
       THEN ApiReturns
       ELSE IF variant = "main" /\ json.next = "nonstring"
       THEN ApiThrows                                   \* nextLink.startsWith is not a function
       ELSE ApiStep("api_head", saved, page + 1, attempt, json, batch, results)
    /\ UNCHANGED <<fieldVars, orderVars, detailVars, crawlVars, inputs, bootAttempt, seen, sink, smVars, hist>>

(* ------------------------ part_002: main loop -------------------------- *)
\* the loop is left: log.info(`Finished. Saved ${saved} ...`)
P2Ends(failed) ==
    /\ pc' = IF failed THEN "failed" ELSE "done"
    /\ apiThrew' = failed
    /\ totalSaved' = saved
    /\ ApiLocals(0, 1, 0, NoJson, 0, <<>>)

\* part_002 148-161: while-head, fetchListingPage and the checks after it.
\* The client parses JSON itself (responseType 'json'); a transport error
\* and any status other than 200 throw (121) and end the loop (154).
P2Fetch ==
    /\ variant = "p2" /\ pc = "api_head"
    /\ IF ApiLoopCond(saved, RESULTS_WANTED, page, MAX_PAGES)
       THEN /\ hist' = NoteListing(hist, page, saved)
            /\ \E r \in Responses(page) :
                 IF r.status = "200" /\ r.kind = "json" /\ r.len > 0
                 THEN ApiStep("p2_items", saved, page, attempt,
                              [set |-> TRUE, len |-> r.len, next |-> r.next], r.len, results)
                 ELSE P2Ends(FALSE)
       ELSE /\ P2Ends(FALSE)
            /\ hist' = hist
    /\ UNCHANGED <<fieldVars, orderVars, detailVars, crawlVars, inputs, bootAttempt, seen, sink, smVars>>

\* seen.has(url) / seen.add(url): the listing's url as it is
P2Key(job) == <<"raw", job.url>>

\* part_002 166-258: one iteration of for (const job of jobs)
P2Item ==
    /\ variant = "p2" /\ pc = "p2_items"
    /\ IF batch = 0 \/ QuotaMet(saved, RESULTS_WANTED)
       THEN /\ ApiStep("api_next", saved, page, attempt, json, batch, results)
            /\ UNCHANGED <<seen, sink>>
       ELSE \/ /\ ItemsMayBeMalformed                   \* job is null: TypeError leaves main()
               /\ P2Ends(TRUE)
               /\ UNCHANGED <<seen, sink>>
            \/ \E job \in GoodJobs :
                 IF job.url = NULL \/ P2Key(job) \in seen
                 THEN /\ ApiStep(pc, saved, page, attempt, json, batch - 1, results)
                      /\ UNCHANGED <<seen, sink>>
                 ELSE /\ seen' = seen \cup {P2Key(job)}
                      /\ sink' = Append(sink, [source |-> "api", id |-> job.id, url |-> job.url])
                      /\ ApiStep(pc, saved + 1, page, attempt, json, batch - 1, results)
    /\ UNCHANGED <<fieldVars, orderVars, detailVars, crawlVars, inputs, bootAttempt, smVars, hist>>

\* part_002 260-266
P2Next ==
    /\ variant = "p2" /\ pc = "api_next"
    /\ IF StopPaging(variant, json.next, page, MAX_PAGES)
       THEN P2Ends(FALSE)
       ELSE ApiStep("api_head", saved, page + 1, attempt, json, batch, results)
    /\ UNCHANGED <<fieldVars, orderVars, detailVars, crawlVars, inputs, bootAttempt, seen, sink, smVars, hist>>

(* ----------------------- Actor.main: fallback -------------------------- *)
\* main.js 895-909
Fallback ==
    /\ variant = "main" /\ pc = "fallback"
    /\ IF FallbackNeeded(totalSaved, RESULTS_WANTED)
       THEN /\ smWanted' = RemainingQuota(RESULTS_WANTED, totalSaved)
            /\ pc' = "sm_index"
       ELSE /\ pc' = "done"
            /\ UNCHANGED smWanted
    /\ UNCHANGED <<fieldVars, orderVars, detailVars, crawlVars, inputs, bootAttempt, seen, sink, totalSaved, apiVars, apiThrew,
                   jobSitemaps, urls, urlIdx, hist>>

(* ------------------------ collectFromSitemaps -------------------------- *)
\* return saved, and totalSaved += ... of main.js 898
SmReturns ==
    /\ totalSaved' = TotalAfterReturn(totalSaved, saved)
    /\ pc' = "done"
    /\ saved' = 0 /\ jobSitemaps' = 0 /\ urls' = <<>> /\ urlIdx' = 1

\* main.js 726-746: the index request (it throws on a non-2xx status)
SmIndex ==
    /\ variant = "main" /\ pc = "sm_index"
    /\ \E k \in SitemapCounts :
        /\ hist' = IF k < 0 THEN Bump(Bump(hist, "smFetches"), "smFailures")
                   ELSE Bump(hist, "smFetches")
        /\ IF k <= 0
           THEN SmReturns
           ELSE /\ jobSitemaps' = k /\ urls' = <<>> /\ pc' = "sm_child"
                /\ UNCHANGED <<totalSaved, saved, urlIdx>>
    /\ UNCHANGED <<fieldVars, orderVars, detailVars, crawlVars, inputs, bootAttempt, seen, sink, page, attempt, json, batch, results,
                   apiThrew, smWanted>>

ChildSkipped_Breaks(n) == 0

\* main.js 756-759, 764-766: `continue` after a status >= 400, an empty
\* catch block after a throw: the loop goes on with the next child sitemap
ChildSkipped(n) == n - 1

\* main.js 747-766: one iteration of for (const sm of jobSitemaps)
SmChild ==
    /\ variant = "main" /\ pc = "sm_child"
    /\ IF jobSitemaps = 0 \/ UrlCapReached(Len(urls), smWanted)
       THEN /\ pc' = "sm_jobs" /\ urlIdx' = 1 /\ jobSitemaps' = 0
            /\ UNCHANGED <<urls, hist>>
       ELSE /\ pc' = pc /\ urlIdx' = urlIdx
            /\ \/ /\ urls' = urls                       \* status >= 400, or the request throws
                  /\ jobSitemaps' = ChildSkipped(jobSitemaps)
                  /\ hist' = Bump(Bump(hist, "smFetches"), "smFailures")
               \/ \E locs \in LocLists :
                     /\ urls' = urls \o SubSeq(locs, 1, Min(Len(locs), smWanted))
                     /\ jobSitemaps' = jobSitemaps - 1
                     /\ hist' = Bump(hist, "smFetches")
    /\ UNCHANGED <<fieldVars, orderVars, detailVars, crawlVars, inputs, bootAttempt, seen, sink, totalSaved, apiVars, apiThrew, smWanted>>

\* what fetchJobPage returns for a page that answers (main.js 511-532): the
\* mapJsonLdJob record of its JSON-LD block, or the DOM record
PageRecords(url) ==
    {[source |-> "html", id |-> NULL, url |-> url]}
    \cup {[source |-> "jsonld", id |-> i, url |-> (IF u = NULL THEN NULL ELSE Href(u))] :
             i \in Ids \cup {NULL}, u \in (1..NumLdUrls) \cup {-1, NULL}}

\* seen.has(url) / seen.add(url) of the sitemap loop
SmKey(url) == <<"url", url>>

SeenAfterJob_Always(s, url, persisted) == s \cup {SmKey(url)}

\* main.js 773-776: seen.add(url) comes after `if (!item) continue` and
\* after pushData
SeenAfterJob(s, url, persisted) == IF persisted THEN s \cup {SmKey(url)} ELSE s

\* main.js 769-783: one iteration of for (const url of urls)
SmJob ==
    /\ variant = "main" /\ pc = "sm_jobs"
    /\ IF urlIdx > Len(urls) \/ QuotaMet(saved, smWanted)
       THEN /\ SmReturns
            /\ UNCHANGED <<seen, sink, hist>>
       ELSE LET url == urls[urlIdx] IN
            /\ urlIdx' = urlIdx + 1
            /\ pc' = pc
            /\ UNCHANGED <<totalSaved, jobSitemaps, urls>>
            /\ IF SmKey(url) \in seen
               THEN UNCHANGED <<seen, sink, saved, hist>>
               ELSE /\ \/ /\ seen' = SeenAfterJob(seen, url, FALSE)   \* fetchJobPage returned null
                          /\ hist' = Bump(Bump(hist, "smFetches"), "smFailures")
                          /\ UNCHANGED <<sink, saved>>
                       \/ \E item \in PageRecords(url) :
                            /\ hist' = Bump(hist, "smFetches")
                            /\ sink' = Append(sink, item)
                            /\ seen' = SeenAfterJob(seen, url, TRUE)
                            /\ saved' = saved + 1
    /\ UNCHANGED <<fieldVars, orderVars, detailVars, crawlVars, inputs, bootAttempt, page, attempt, json, batch, results, apiThrew, smWanted>>

(* ------------------- CheerioCrawler request handlers ------------------- *)
\* main.js 167-290 ("c1") and 1083-1210 ("c3").  A handler runs from one
\* await to the next without interruption; between two awaits any other
\* handler may run.  A LIST request is the listing URL of start URL `key`
\* with its page parameter set to pageNo; a DETAIL request is job page `key`.
ListReq(u, n) == [label |-> "LIST", key |-> u, pageNo |-> n]
DetailReq(u) == [label |-> "DETAIL", key |-> u, pageNo |-> 0]

\* c1: findNextPage sets the page of initial[0] (main.js 159-165);
\* c3: nextPageUrl sets the page of request.url (main.js 1067-1076)
NextPageReq(v, r) == ListReq(IF v = "c1" THEN 1 ELSE r.key, r.pageNo + 1)

\* a suspended handler: its request, the await it is at, what it adds to
\* saved when the pending pushData resolves, the jobs its loop has left
Handler(r, at, inc, todo) == [req |-> r, at |-> at, inc |-> inc, todo |-> todo]

\* the job links of a listing page (findJobLinks / parseListingHtml collect
\* them in a Set, toAbs makes them absolute)
LinkSeqs == {q \in SeqsUpTo(Urls, MaxLinks) : \A i, j \in 1..Len(q) : i # j => q[i] # q[j]}

\* Array.prototype.slice(0, n): a negative n counts from the end
SliceTo(q, n) ==
    IF n >= 0 THEN SubSeq(q, 1, Min(n, Len(q)))
    ELSE SubSeq(q, 1, IF Len(q) + n > 0 THEN Len(q) + n ELSE 0)

\* c1: slice(0, Math.max(0, remaining)); c3: slice(0, remaining)
Remaining(v, s) ==
    LET remaining == RESULTS_WANTED - s
    IN IF v = "c1" /\ remaining < 0 THEN 0 ELSE remaining

SeenKey(u) == <<"url", u>>

\* .filter((u) => !seenJobs.has(u))
Unseen(q) == SelectSeq(q, LAMBDA u : SeenKey(u) \notin seen)

RECURSIVE DropSeen(_)
\* if (seenJobs.has(job.url)) continue;
DropSeen(q) ==
    IF q # <<>> /\ SeenKey(Head(q)) \in seen THEN DropSeen(Tail(q)) ELSE q

Range(q) == {q[i] : i \in 1..Len(q)}

CrawlRecord(source, u) == [source |-> source, id |-> NULL, url |-> u]

DetailPush_Twice(q, u) == Append(Append(q, CrawlRecord("detail", u)), CrawlRecord("detail", u))

\* main.js 283, 1190-1202: the one pushData of the DETAIL branch
DetailPush(q, u) == Append(q, CrawlRecord("detail", u))

\* enqueueLinks: the queue drops a request whose uniqueKey it has seen
Enqueue(reqs) ==
    /\ requestQueue' = requestQueue \cup (reqs \ enqueued)
    /\ enqueued' = enqueued \cup reqs

\* main.js 228-232, 1155-1164: the tail of the LIST branch
ListTail(h, s) ==
    /\ active' = active \ {h}
    /\ Enqueue(IF s < RESULTS_WANTED /\ h.req.pageNo < MAX_PAGES
               THEN {NextPageReq(variant, h.req)} ELSE {})

\* main.js 188-203, 1118-1126: the loop over the sliced jobs of the JSON
\* listing goes on with saved = s: the next job is handed to pushData, or
\* the loop ends and the tail of the LIST branch runs
PushLoop(h, s, todo) ==
    LET t == IF variant = "c3" THEN DropSeen(todo) ELSE todo IN
    IF t # <<>>
    THEN /\ sink' = Append(sink, CrawlRecord("json", Head(t)))
         /\ seen' = IF variant = "c3" THEN seen \cup {SeenKey(Head(t))} ELSE seen
         /\ active' = (active \ {h}) \cup {Handler(h.req, "push", 1, Tail(t))}
         /\ UNCHANGED <<requestQueue, enqueued>>
    ELSE /\ ListTail(h, s)
         /\ UNCHANGED <<sink, seen>>

\* main.js 173-179, 235-283 and 1089-1099, 1167-1202: the crawler hands a
\* request to requestHandler, which runs to its first await
StartOn(r) ==
    /\ requestQueue' = requestQueue \ {r}
    /\ IF (variant = "c3" \/ r.label = "DETAIL") /\ QuotaMet(saved, RESULTS_WANTED)
       THEN UNCHANGED <<active, sink, pagesHit>>                  \* return
       ELSE IF r.label = "LIST"
       THEN /\ active' = active \cup {Handler(r, "json", 0, <<>>)}
            /\ pagesHit' = pagesHit + 1
            /\ UNCHANGED sink
       ELSE /\ sink' = DetailPush(sink, r.key)
            /\ active' = active \cup {Handler(r, "push", 1, <<>>)}
            /\ UNCHANGED pagesHit
    /\ UNCHANGED <<inputs, pc, seen, saved, collectDetails, enqueued, hist, idleInCrawl>>

HasFreeSlot_Unbounded(running) == TRUE

\* maxConcurrency: 10 (main.js 171, 1087): the crawler starts a handler
\* only while fewer than that many are running
HasFreeSlot(running) == Cardinality(running) < MAX_CONCURRENCY

\* the crawler takes any queued request
HandlerStart ==
    /\ pc = "crawl"
    /\ HasFreeSlot(active)
    /\ \E r \in requestQueue : StartOn(r)

\* the crawler takes the queued requests in the order they were added
\* (job pages enqueued in the order of their keys)
HandlerStartInOrder ==
    /\ pc = "crawl"
    /\ HasFreeSlot(active)
    /\ \E r \in requestQueue :
        /\ \A o \in requestQueue : r.key <= o.key
        /\ StartOn(r)

\* main.js 181-226, 1100-1153: the listing's JSON request has resolved
\* (viaApi: with a jobs array); the handler runs to its next await
ListJson ==
    /\ pc = "crawl"
    /\ \E h \in active, found \in LinkSeqs, viaApi \in BOOLEAN :
        /\ h.at = "json"
        /\ (variant = "c3" /\ viaApi) => found # <<>>             \* jsonData?.jobs?.length
        /\ hist' = NoteYield(hist, found)
        /\ LET cut == SliceTo(found, Remaining(variant, saved))
               fresh == IF variant = "c3" THEN Unseen(cut) ELSE cut
           IN IF viaApi /\ ~collectDetails
              THEN PushLoop(h, saved, cut)
              ELSE IF fresh = <<>>
              THEN /\ ListTail(h, saved)
                   /\ UNCHANGED <<sink, seen>>
              ELSE /\ seen' = IF variant = "c3"
                              THEN seen \cup {SeenKey(u) : u \in Range(fresh)} ELSE seen
                   /\ IF collectDetails
                      THEN /\ Enqueue({DetailReq(u) : u \in Range(fresh)})
                           /\ active' = (active \ {h}) \cup {Handler(h.req, "enqueue", 0, <<>>)}
                           /\ UNCHANGED sink
                      ELSE /\ sink' = sink \o [i \in 1..Len(fresh) |->
                                                  CrawlRecord("html", fresh[i])]
                           /\ active' = (active \ {h}) \cup
                                            {Handler(h.req, "push", Len(fresh), <<>>)}
                           /\ UNCHANGED <<requestQueue, enqueued>>
    /\ UNCHANGED <<inputs, pc, saved, collectDetails, pagesHit, idleInCrawl>>

\* main.js 202, 224, 284 and 1080, 1151: the pending pushData has resolved;
\* saved is incremented and the handler runs on
PushResolves ==
    /\ pc = "crawl"
    /\ \E h \in active :
        /\ h.at = "push"
        /\ saved' = saved + h.inc
        /\ IF h.req.label = "DETAIL"
           THEN /\ active' = active \ {h}
                /\ UNCHANGED <<sink, seen, requestQueue, enqueued>>
           ELSE PushLoop(h, saved + h.inc, h.todo)
    /\ UNCHANGED <<inputs, pc, collectDetails, pagesHit, hist, idleInCrawl>>

\* main.js 218, 1140-1143: enqueueLinks of the DETAIL requests has resolved
EnqueueResolves ==
    /\ pc = "crawl"
    /\ \E h \in active :
        /\ h.at = "enqueue"
        /\ ListTail(h, saved)
    /\ UNCHANGED <<inputs, pc, seen, sink, saved, collectDetails, pagesHit, hist, idleInCrawl>>

\* main.js 290-291, 1210-1211: crawler.run resolves when the queue is
\* drained and no handler runs
CrawlEnds ==
    /\ pc = "crawl" /\ requestQueue = {} /\ active = {}
    /\ pc' = "done"
    /\ UNCHANGED <<inputs, seen, sink, saved, crawlVars, hist, idleInCrawl>>

\* a crawler started on its start URLs (initial / startList), each a LIST
\* request with pageNo 1
InitCrawler ==
    /\ variant \in {"c1", "c3"}
    /\ srvMode = "any" /\ srvPages = 0
    /\ RESULTS_WANTED \in 1..MaxQuota
    /\ InitCommon
    /\ collectDetails \in BOOLEAN
    /\ \E k \in 1..MaxStartUrls :
          /\ requestQueue = {ListReq(u, 1) : u \in 1..k}
          /\ enqueued = requestQueue
    /\ active = {}
    /\ pagesHit = 0

\* a crawl with collectDetails in which MaxDetailReqs listing pages of one
\* job link each were handled before any record was saved: their DETAIL
\* requests are all queued
InitOvershoot ==
    /\ variant \in {"c1", "c3"}
    /\ srvMode = "any" /\ srvPages = 0
    /\ RESULTS_WANTED \in 1..MaxQuota
    /\ MAX_PAGES = MaxDetailReqs
    /\ pc = "crawl"
    /\ bootAttempt = 0 /\ totalSaved = 0 /\ saved = 0
    /\ page = 1 /\ attempt = 0 /\ json = NoJson /\ batch = 0 /\ results = <<>>
    /\ apiThrew = FALSE
    /\ smWanted = NULL /\ jobSitemaps = 0 /\ urls = <<>> /\ urlIdx = 1
    /\ hist = InitHist
    /\ sink = <<>>
    /\ seen = IF variant = "c3" THEN {SeenKey(u) : u \in 1..MaxDetailReqs} ELSE {}
    /\ NoFields
    /\ NoChunk
    /\ NoDetails
    /\ collectDetails = TRUE
    /\ requestQueue = {DetailReq(u) : u \in 1..MaxDetailReqs}
    /\ enqueued = requestQueue \cup {ListReq(1, n) : n \in 1..MaxDetailReqs}
    /\ active = {}
    /\ pagesHit = MaxDetailReqs

(* ------------------ field resolvers and normalizeSpace ----------------- *)
\* what applying a pure function never touches
idleInFields == <<inputs, bootAttempt, seen, sink, totalSaved, apiVars, apiThrew, smVars,
                  hist, crawlVars, orderVars, detailVars>>

LocationStrs == Strs({"A", "B", " "}, MaxFieldLen)
ClearanceStrs == Strs({"A", " "}, MaxFieldLen)
SalaryVals == {NoVal, NumVal(0), NumVal(7), NumVal(85), StrVal(<<"A">>)}

\* no program runs: only pure functions are applied
InitPure ==
    /\ RESULTS_WANTED = 1 /\ MAX_PAGES = 1
    /\ srvMode = "any" /\ srvPages = 0
    /\ InitRun
    /\ NoCrawler
    /\ NoChunk
    /\ NoDetails

\* a listing item with its sub-resources, about to be mapped
InitFields ==
    /\ InitPure
    /\ variant \in {"main", "p1", "p2"}
    /\ pc = "fields"
    /\ \E jl \in LocationStrs, js \in {NoVal, NumVal(7)}, jt \in {<<>>, <<"B">>} :
          srcJob = [NoSource EXCEPT !.location = jl, !.salary = js, !.job_type = jt]
    /\ \E dl \in LocationStrs, dc \in ClearanceStrs, ds \in SalaryVals :
          srcDetail = [NoSource EXCEPT !.location = dl, !.security_clearance = dc,
                                       !.salary = ds]
    /\ srcAdditional = NoSource
    /\ resolved = NoItem
    /\ text = <<>> /\ normOnce = <<>> /\ normTwice = <<>>
    /\ NoMerge

\* a string about to be normalized
InitText ==
    /\ InitPure
    /\ variant = "main"
    /\ pc = "text"
    /\ srcJob = NoSource /\ srcDetail = NoSource /\ srcAdditional = NoSource
    /\ resolved = NoItem
    /\ text \in Strs({"A", " ", "\t"}, MaxTextLen)
    /\ normOnce = <<>> /\ normTwice = <<>>
    /\ NoMerge

\* strings made of one character
Runs(c, n) == {[i \in 1..k |-> c] : k \in 0..n}

\* a mapper holds the item of mapApiJob and the job page has answered
InitMerge ==
    /\ InitPure
    /\ variant = "main"
    /\ pc = "merge"
    /\ srcJob = NoSource /\ srcDetail = NoSource /\ srcAdditional = NoSource
    /\ resolved = NoItem
    /\ text = <<>> /\ normOnce = <<>> /\ normTwice = <<>>
    /\ apiItem \in [description_html : Runs("A", 1), description_text : Runs("A", MaxDescLen - 1),
                    job_type : Runs("A", 1), location : Runs("A", 1),
                    security_clearance : Runs("A", 1), salary : {NoVal, StrVal(<<"A">>)}]
    /\ htmlItem \in [description_html : Runs("B", 1), description_text : Runs("B", MaxDescLen),
                     job_type : Runs("B", 1), location : {<<>>},
                     security_clearance : Runs("B", 1), salary : {NoVal, StrVal(<<"B">>)}]
    /\ merged = NoPage

\* main.js 670, part_001 224, part_002 204: the record is built
MapFields ==
    /\ pc = "fields"
    /\ resolved' = Resolve(variant, srcJob, srcDetail, srcAdditional)
    /\ pc' = "done"
    /\ UNCHANGED <<idleInFields, mergeVars, srcJob, srcDetail, srcAdditional, text, normOnce, normTwice>>

\* normalizeSpace(text)
NormalizeOnce ==
    /\ pc = "text"
    /\ normOnce' = normalizeSpace(text)
    /\ pc' = "once"
    /\ UNCHANGED <<idleInFields, mergeVars, srcJob, srcDetail, srcAdditional, resolved, text, normTwice>>

\* normalizeSpace(normalizeSpace(text))
NormalizeTwice ==
    /\ pc = "once"
    /\ normTwice' = normalizeSpace(normOnce)
    /\ pc' = "done"
    /\ UNCHANGED <<idleInFields, mergeVars, srcJob, srcDetail, srcAdditional, resolved, text, normOnce>>

(* ------------------------------ Next ----------------------------------- *)
NextApi ==
    \/ BootFetch
    \/ ApiHead
    \/ ApiFetch
    \/ ApiBatch
    \/ ApiPersist
    \/ ApiNext
    \/ P2Fetch
    \/ P2Item
    \/ P2Next

Next ==
    \/ BootFetch
    \/ ApiHead
    \/ ApiFetch
    \/ ApiBatch
    \/ ApiPersist
    \/ ApiNext
    \/ Fallback
    \/ SmIndex
    \/ SmChild
    \/ SmJob

Spec == Init /\ [][Next]_vars

\* every awaited request, sleep and pushData completes, so the async
\* function always takes its next step
SpecLive == Init /\ [][Next]_vars /\ WF_vars(Next)

\* collectFromSitemaps alone: the API strategy saved nothing and Actor.main
\* has taken the fallback with the whole quota (main.js 896-901)
InitSitemaps ==
    /\ NoCrawler
    /\ variant = "main"
    /\ srvMode = "sitemaps" /\ srvPages = 0
    /\ RESULTS_WANTED \in 1..MaxQuota
    /\ MAX_PAGES = 1
    /\ InitRun /\ NoFields /\ NoChunk /\ NoDetails
    /\ pc = "fallback"

NextSitemaps ==
    \/ Fallback
    \/ SmIndex
    \/ SmChild
    \/ SmJob

SpecSitemaps == InitSitemaps /\ [][NextSitemaps]_vars

SpecApi == InitApi /\ [][NextApi]_vars

NextCrawler ==
    \/ HandlerStart
    \/ ListJson
    \/ PushResolves
    \/ EnqueueResolves
    \/ CrawlEnds

SpecCrawler == InitCrawler /\ [][NextCrawler]_vars

NextOvershoot ==
    \/ HandlerStartInOrder
    \/ PushResolves
    \/ CrawlEnds

SpecOvershoot == InitOvershoot /\ [][NextOvershoot]_vars

\* main.js 671-700: the rest of the mapper once mapApiJob has returned;
\* fetchJobPage gives null when the page cannot be fetched or parsed
EnrichFromHtml ==
    /\ pc = "merge"
    /\ IF HasGaps(apiItem)
       THEN \/ merged' = MergeHtml(apiItem, htmlItem)
            \/ merged' = apiItem                          \* htmlItem is null
       ELSE merged' = apiItem
    /\ pc' = "done"
    /\ UNCHANGED <<idleInFields, srcJob, srcDetail, srcAdditional, resolved, text, normOnce,
                   normTwice, apiItem, htmlItem>>

NextFields ==
    \/ MapFields
    \/ NormalizeOnce
    \/ NormalizeTwice
    \/ EnrichFromHtml

SpecFields == (InitFields \/ InitText \/ InitMerge) /\ [][NextFields]_vars

(* ------------- one chunk of collectFromApi, mapper by mapper ------------ *)
\* ApiBatch takes Promise.all(chunk.map(async ...)) as one step.  Here the
\* mappers of one chunk are followed one by one: each is suspended at its
\* awaits (fetchDetails, fetchJobPage / the detail request) and resolves
\* when its responses have come, in any order among the mappers.
Pending == [source |-> "pending", id |-> NULL, url |-> NULL, tag |-> 0]

\* listing items of the chunk
ChunkJobs == {j \in GoodJobs : j.url \in {1, -1, NULL}}

\* the value of the mapper of job (main.js 669-700, part_001 210-232)
MapperValues(v, job) ==
    IF v = "main"
    THEN {mapApiJob(job, d, a, "api") : d \in Views, a \in Views}
    ELSE {mapApiJobP1(job, d) : d \in Views}

Assemble_ByCompletion(values, order) == [i \in DOMAIN values |-> values[order[i]]]

\* Promise.all resolves to the values of its promises in the order of the
\* promises, whatever the order they resolved in
Assemble(values, order) == [i \in DOMAIN values |-> values[i]]

\* a chunk has been spliced off the batch and its mappers started
InitOrder ==
    /\ NoCrawler
    /\ NoFields
    /\ NoDetails
    /\ variant \in {"main", "p1"}
    /\ srvMode = "any" /\ srvPages = 0
    /\ RESULTS_WANTED \in 1..MaxQuotaApi
    /\ MAX_PAGES = 1
    /\ InitRun
    /\ pc = "api_map"
    /\ \E k \in 1..MaxChunk :
          /\ chunk \in [1..k -> ChunkJobs]
          /\ settled = [i \in 1..k |-> Pending]
          /\ inFlight = k
    /\ completion = <<>>

\* the mapper of chunk[i] returns
MapperResolves ==
    /\ variant \in {"main", "p1"} /\ pc = "api_map"
    /\ \E i \in DOMAIN chunk :
          /\ settled[i] = Pending
          /\ \E item \in MapperValues(variant, chunk[i]) :
                settled' = [settled EXCEPT ![i] = item]
          /\ completion' = Append(completion, i)
    /\ inFlight' = inFlight - 1
    /\ UNCHANGED <<fieldVars, detailVars, crawlVars, pipeVars, chunk>>

\* const results = await Promise.all(...)
AllResolved ==
    /\ variant \in {"main", "p1"} /\ pc = "api_map"
    /\ Len(completion) = Len(chunk)
    /\ ApiStep("api_persist", saved, page, attempt, json, batch, Assemble(settled, completion))
    /\ UNCHANGED <<fieldVars, orderVars, detailVars, crawlVars, inputs, bootAttempt, seen, sink, smVars, hist>>

NextOrder ==
    \/ MapperResolves
    \/ AllResolved
    \/ ApiPersist

SpecOrder == InitOrder /\ [][NextOrder]_vars

(* ------------- one page of collectFromApi, chunk by chunk --------------- *)
\* The chunk loop of one listing page with its real width.  The mappers are
\* counted, not told apart: item i of the page is { id: i } and its
\* sub-resource requests fail, so its record is mapApiJob(job, {}, {}).
PageJob(i) == [id |-> i, url |-> NULL, tag |-> 1]

PageItem(v, i) ==
    IF v = "main" THEN mapApiJob(PageJob(i), EmptyView, EmptyView, "api")
    ELSE mapApiJobP1(PageJob(i), EmptyView)

\* a listing page of 1..MaxPageItems items has been parsed: const batch = [...data]
InitWidth ==
    /\ NoCrawler /\ NoFields /\ NoDetails
    /\ variant \in {"main", "p1"}
    /\ srvMode = "any" /\ srvPages = 0
    /\ RESULTS_WANTED \in 1..MaxPageItems
    /\ MAX_PAGES = 1
    /\ bootAttempt = 0 /\ seen = {} /\ sink = <<>> /\ totalSaved = 0 /\ saved = 0
    /\ page = 1 /\ attempt = 1
    /\ \E n \in 1..MaxPageItems :
          /\ json = [set |-> TRUE, len |-> n, next |-> "none"]
          /\ batch = n
    /\ results = <<>> /\ apiThrew = FALSE
    /\ smWanted = NULL /\ jobSitemaps = 0 /\ urls = <<>> /\ urlIdx = 1
    /\ hist = InitHist
    /\ pc = "api_batch"
    /\ NoChunk

\* main.js 665-668, part_001 208-210: the loop test, the splice and the
\* start of the chunk's mappers (each runs to its first await)
ChunkStarts ==
    /\ variant \in {"main", "p1"} /\ pc = "api_batch"
    /\ IF batch > 0 /\ ~QuotaMet(saved, RESULTS_WANTED)
       THEN LET k == ChunkSize(variant, batch)
                first == json.len - batch
            IN /\ chunk' = [i \in 1..k |-> PageJob(first + i)]
               /\ inFlight' = k
               /\ ApiStep("api_wait", saved, page, attempt, json, batch - k, results)
       ELSE /\ ApiStep("api_next", saved, page, attempt, json, batch, results)
            /\ UNCHANGED <<chunk, inFlight>>
    /\ UNCHANGED <<fieldVars, detailVars, crawlVars, inputs, bootAttempt, seen, sink, smVars, hist,
                   settled, completion>>

\* main.js 700, part_001 232: a mapper of the chunk returns its item
MapperReturns ==
    /\ variant \in {"main", "p1"} /\ pc = "api_wait"
    /\ inFlight > 0
    /\ inFlight' = inFlight - 1
    /\ UNCHANGED <<fieldVars, detailVars, crawlVars, pipeVars, chunk, settled, completion>>

\* const results = await Promise.all(...): every mapper has returned
ChunkJoins ==
    /\ variant \in {"main", "p1"} /\ pc = "api_wait"
    /\ inFlight = 0
    /\ ApiStep("api_persist", saved, page, attempt, json, batch,
               [i \in 1..Len(chunk) |-> PageItem(variant, chunk[i].id)])
    /\ UNCHANGED <<fieldVars, orderVars, detailVars, crawlVars, inputs, bootAttempt, seen, sink,
                   smVars, hist>>

NextWidth ==
    \/ ChunkStarts
    \/ MapperReturns
    \/ ChunkJoins
    \/ ApiPersist

SpecWidth == InitWidth /\ [][NextWidth]_vars

(* ------------- buildRouteResolver and one call of fetchDetails ---------- *)
idleInDetails == <<inputs, bootAttempt, seen, sink, totalSaved, apiVars, apiThrew, smVars,
                   hist, crawlVars, fieldVars, orderVars>>

\* the bootstrap page has been fetched; its route table is any
InitDetails ==
    /\ variant = "main"
    /\ RESULTS_WANTED = 1 /\ MAX_PAGES = 1
    /\ srvMode = "any" /\ srvPages = 0
    /\ InitRun /\ NoCrawler /\ NoFields /\ NoChunk
    /\ pc = "routes"
    /\ routeTable \in RouteTables
    /\ routes = NoRoutes
    /\ fdAt = "idle" /\ pending = {} /\ issued = <<>> /\ fdResults = NoResults

\* main.js 863: const routes = buildRouteResolver(searchPageHtml)
BuildRoutes ==
    /\ pc = "routes"
    /\ routes' = buildRouteResolver(routeTable)
    /\ pc' = "details"
    /\ UNCHANGED <<idleInDetails, routeTable, fdAt, pending, issued, fdResults>>

\* main.js 583-605: the second try block runs to its await, with the
\* detail outcome d settled.  routes.additional({ job }) is a TypeError
\* when the property is undefined; the catch swallows it and fetchDetails
\* returns.
TryAdditional(d) ==
    IF Callable(routes.additional)
    THEN /\ pending' = {"additional"}
         /\ issued' = Append(issued, "additional")
         /\ fdAt' = "additional"
         /\ fdResults' = [fdResults EXCEPT !.detail = d]
         /\ pc' = pc
    ELSE /\ pending' = {}
         /\ issued' = issued
         /\ fdAt' = "done"
         /\ fdResults' = [detail |-> d, additional |-> "throw"]
         /\ pc' = "done"

\* main.js 558-566: fetchDetails(job.id) is called and runs to its first await
FetchDetailsCall ==
    /\ pc = "details" /\ fdAt = "idle"
    /\ IF Callable(routes.show)
       THEN /\ pending' = {"detail"}
            /\ issued' = Append(issued, "detail")
            /\ fdAt' = "detail"
            /\ UNCHANGED <<fdResults, pc>>
       ELSE TryAdditional("throw")
    /\ UNCHANGED <<idleInDetails, routeTable, routes>>

\* main.js 567-581: the detail request has settled
DetailSettles ==
    /\ pc = "details" /\ fdAt = "detail"
    /\ \E d \in Outcomes : TryAdditional(d)
    /\ UNCHANGED <<idleInDetails, routeTable, routes>>

\* main.js 590-606: the additional request has settled; return results
AdditionalSettles ==
    /\ pc = "details" /\ fdAt = "additional"
    /\ \E a \in Outcomes : fdResults' = [fdResults EXCEPT !.additional = a]
    /\ pending' = {}
    /\ fdAt' = "done"
    /\ pc' = "done"
    /\ UNCHANGED <<idleInDetails, routeTable, routes, issued>>

NextDetails ==
    \/ BuildRoutes
    \/ FetchDetailsCall
    \/ DetailSettles
    \/ AdditionalSettles

SpecDetails == InitDetails /\ [][NextDetails]_vars

(* ============================== claims ================================= *)
ApiCount == Cardinality({i \in 1..Len(sink) : sink[i].source = "api"})
AfterApi == pc \in {"fallback", "sm_index", "sm_child", "sm_jobs", "done"}
SitemapInvoked == smWanted # NULL
PagesFetched == {p \in DOMAIN hist.listFetches : hist.listFetches[p] > 0}
ApiFinished == (variant = "main" /\ pc = "fallback") \/ (variant # "main" /\ pc = "done")

\* C1: in the API-then-sitemap pipeline the number of records handed to
\* dataset.pushData in one run never exceeds RESULTS_WANTED.
C1_QuotaNeverExceeded == variant = "main" => Len(sink) <= RESULTS_WANTED

\* C2: of two records with the same resolved identity key (url, else id)
\* at most one is handed to the sink in a run.
C2_OneRecordPerKey ==
    \A i, j \in 1..Len(sink) :
        (i < j /\ RecKey(sink[i]) # <<"none", 0>>) => RecKey(sink[i]) # RecKey(sink[j])

\* C3: when the bootstrap page cannot be fetched after all retries the run
\* does not end in an error state (the failure is fatal to the API strategy
\* only, and the sitemap strategy still runs).
C3_BootstrapFailureNotFatal == ~(variant = "main" /\ bootAttempt = MAX_ATTEMPTS /\ pc = "failed")

\* C4: when every listing request is answered with status 500 the API
\* strategy saves nothing and returns, and the sitemap strategy is invoked
\* with the full quota (and can fill it on its own: C4_Witness).
C4_FallbackAfterAll500 ==
    (srvMode = "down" /\ AfterApi) =>
        /\ ApiCount = 0
        /\ ~apiThrew
        /\ pc # "fallback" => (SitemapInvoked /\ smWanted = RESULTS_WANTED)

C4_Witness ==
    /\ srvMode = "down" /\ pc = "done" /\ hist.listFetches[1] = MAX_ATTEMPTS
    /\ RESULTS_WANTED = MaxQuota /\ Len(sink) = RESULTS_WANTED /\ totalSaved = RESULTS_WANTED

\* C5: in the crawler variants, whose handlers interleave at every await,
\* the number of records pushed to the dataset never exceeds RESULTS_WANTED.
C5_CrawlerQuotaNeverExceeded == variant \in {"c1", "c3"} => Len(sink) <= RESULTS_WANTED

\* C6: when the API strategy persists RESULTS_WANTED records, exactly that
\* many records are persisted, all with source 'api', and no sitemap
\* request is issued.
C6_QuotaByApiSkipsSitemap ==
    (variant = "main" /\ ApiCount = RESULTS_WANTED) =>
        /\ Len(sink) = RESULTS_WANTED
        /\ hist.smFetches = 0

\* C7: the sitemap strategy is invoked with RESULTS_WANTED minus the number
\* of records the API strategy persisted, and at the end of the run
\* totalSaved equals the number of records handed to the sink.
C7_RemainingQuotaAndTotal ==
    /\ SitemapInvoked => smWanted = RESULTS_WANTED - ApiCount
    /\ (variant = "main" /\ pc = "done") => totalSaved = Len(sink)

\* C8: an exception thrown by collectFromApi is caught by the orchestrator
\* and the sitemap strategy still runs; no failure of the sitemap strategy
\* makes the run fail.
C8_StrategyFailuresContained ==
    (variant = "main" /\ (apiThrew \/ SitemapInvoked)) =>
        /\ pc # "failed"
        /\ (apiThrew /\ pc \notin {"fallback"}) => SitemapInvoked

C8_Witness == apiThrew /\ pc = "done" /\ SitemapInvoked /\ Len(sink) > ApiCount /\ ApiCount > 0

\* C9: against a listing source of N pages (links.next on pages 1..N-1
\* only, every response 200 JSON with a non-empty data array), with
\* max_pages >= N and the quota never reached, each API collector requests
\* pages 1..N exactly once each and no other page.
C9_ExactlyNListingFetches ==
    (srvMode = "paged" /\ ApiFinished /\ MAX_PAGES >= srvPages /\ Len(sink) < RESULTS_WANTED) =>
        \A p \in DOMAIN hist.listFetches :
            hist.listFetches[p] = IF p <= srvPages THEN 1 ELSE 0

C9_Witness ==
    /\ srvMode = "paged" /\ ApiFinished /\ srvPages = MaxSrvPages /\ MAX_PAGES >= srvPages
    /\ Len(sink) = srvPages /\ RESULTS_WANTED > Len(sink)
    /\ \A p \in 1..srvPages : hist.listFetches[p] = 1

\* C10: in every API collector the number of distinct listing pages
\* requested never exceeds max_pages, and no listing page is requested
\* once saved >= results_wanted.
C10_PageBudgetAndQuotaStop ==
    /\ Cardinality(PagesFetched) <= MAX_PAGES
    /\ ~hist.lateFetch

C10_Witness ==
    /\ Cardinality(PagesFetched) = MAX_PAGES /\ MAX_PAGES = MaxPageBudget
    /\ ApiFinished /\ Len(sink) = RESULTS_WANTED /\ hist.listFetches[1] > 1

\* C11: in every API collector, when the detail sub-resource and the
\* listing item both carry a non-empty location, the record's location is
\* the detail's.
C11_DetailLocationWins ==
    (pc = "done" /\ srcDetail.location # <<>> /\ srcJob.location # <<>>
        /\ normalizeSpace(srcDetail.location) = srcDetail.location)
    => resolved.location = srcDetail.location

\* C12: every record the API or the sitemap strategy hands to the sink has
\* at least one of id and url non-null.
C12_PersistedHasIdOrUrl ==
    variant = "main" => \A i \in 1..Len(sink) : sink[i].id # NULL \/ sink[i].url # NULL

\* C13: a request answered with a status in 400..499 is never retried: no
\* retry loop (bootstrap page, listing page) goes on to another attempt
\* after such an answer.
C13_ClientErrorNotRetried ==
    pc \in {"boot", "api_fetch"} => hist.lastStatus \notin {"403", "4xx"}

\* C14: a failure confined to one item of a listing page (its sub-resource
\* requests failing, its mapping failing on malformed data) never aborts the
\* page: a chunk that is enriched is always followed by the evaluation of
\* its results for persistence.
C14_ItemFailureContained ==
    [][(variant \in {"main", "p1"} /\ pc = "api_batch" /\ batch > 0
            /\ ~QuotaMet(saved, RESULTS_WANTED))
        => pc' = "api_persist"]_vars

\* a string with no run of two or more whitespace characters and no leading
\* or trailing whitespace
WhitespaceNormalized(q) ==
    /\ q # <<>> => (~IsSpace(q[1]) /\ ~IsSpace(q[Len(q)]))
    /\ \A i \in 1..(Len(q) - 1) : ~(IsSpace(q[i]) /\ IsSpace(q[i + 1]))

\* C15: every string field of a record that is persisted is
\* whitespace-normalized.
C15_StringFieldsNormalized ==
    pc = "done" =>
        /\ WhitespaceNormalized(resolved.location)
        /\ WhitespaceNormalized(resolved.security_clearance)
        /\ WhitespaceNormalized(resolved.salary.s)

\* C16 as stated: normalizeSpace is idempotent, and it returns every string
\* that has no whitespace run and no leading or trailing whitespace as it is.
C16_IdempotentAndFixesNormalized ==
    /\ pc = "done" => normTwice = normOnce
    /\ (pc \in {"once", "done"} /\ WhitespaceNormalized(text)) => normOnce = text

\* every whitespace character of the string is a single space
OnlySingleSpaces(q) == WhitespaceNormalized(q) /\ \A i \in 1..Len(q) : q[i] # "\t"

\* C16 amended: normalizeSpace is idempotent, and it returns a string as it
\* is when the string has no leading or trailing whitespace and its only
\* whitespace characters are single spaces.
C16_IdempotentAndFixesSingleSpaced ==
    /\ pc = "done" => normTwice = normOnce
    /\ (pc \in {"once", "done"} /\ OnlySingleSpaces(text)) => normOnce = text

C16_Witness ==
    /\ pc = "done" /\ text = <<" ", "A", "\t", " ", "A">>
    /\ normOnce = <<"A", " ", "A">> /\ normTwice = normOnce

\* C19: the salary of a persisted record is a string or null; a numeric
\* value the resolver selects is persisted as its string form.
C19_SalaryIsStringOrNull ==
    pc = "done" =>
        /\ resolved.salary.k \in {"str", "none"}
        /\ (variant \in {"main", "p1"} /\ srcDetail.salary.k = "num" /\ srcDetail.salary.n # 0)
               => resolved.salary = StrVal(Digits(srcDetail.salary.n))

\* C17: in the crawlers the number of LIST pages processed in one run never
\* exceeds MAX_PAGES, whatever the number of start URLs.
C17_ListPagesWithinBudget == variant \in {"c1", "c3"} => pagesHit <= MAX_PAGES

\* C20: within one chunk of a listing page the records reach the sink in the
\* index order of the listing items whatever the order the mappers resolved
\* in, and of the items sharing an identity key the one persisted is the one
\* of lowest index.
C20_SinkFollowsIndexOrder ==
    (chunk # <<>> /\ pc \in {"api_persist", "api_batch"}) =>
        \E f \in [1..Len(sink) -> DOMAIN chunk] :
            /\ \A p, q \in 1..Len(sink) : p < q => f[p] < f[q]
            /\ \A p \in 1..Len(sink) :
                  /\ sink[p] = Stored(settled[f[p]])
                  /\ \A j \in 1..(f[p] - 1) :
                        ApiKey(settled[j]) # ApiKey(settled[f[p]])

\* the mappers resolved in an order other than the index order, an item
\* sharing its key with an earlier one was skipped and two records were saved
C20_Witness ==
    /\ chunk # <<>> /\ pc = "api_batch"
    /\ Len(chunk) = 3 /\ Len(sink) = 2
    /\ completion = <<3, 2, 1>>
    /\ ApiKey(settled[1]) = ApiKey(settled[2])
    /\ Stored(settled[1]) # Stored(settled[2])
    /\ sink = <<Stored(settled[1]), Stored(settled[3])>>

\* C21: once saved has reached the quota inside collectFromApi, nothing more
\* is persisted or added to seen, no further chunk of the page is enriched
\* and no further listing request is issued.
C21_QuotaCancelsTheRest ==
    [][(/\ variant \in {"main", "p1"}
        /\ pc \in {"api_head", "api_batch", "api_persist", "api_next"}
        /\ saved >= RESULTS_WANTED)
       => /\ seen' = seen
          /\ sink' = sink
          /\ hist'.listFetches = hist.listFetches
          /\ pc' \notin {"api_fetch", "api_persist"}]_vars

\* page 1 listed two items with a next link, the first met the quota and
\* the second was dropped
C21_Witness ==
    /\ variant \in {"main", "p1"} /\ pc = "api_next" /\ page = 1
    /\ RESULTS_WANTED = 1 /\ saved = 1 /\ Len(sink) = 1 /\ Cardinality(seen) = 1
    /\ json.len = 2 /\ json.next = "abs"

C23_NonJsonEndsStrategy ==
    [][(variant \in {"main", "p1"} /\ hist'.nonJson)
       => IF hist.nonJson
          THEN hist'.listFetches = hist.listFetches
          ELSE /\ totalSaved' = totalSaved + saved
               /\ ~apiThrew'
               /\ pc' = IF variant = "main" THEN "fallback" ELSE "done"]_vars

\* page 2 answered with a body that is no JSON object after a record of page
\* 1 was saved, and the collector has returned that count
C23_Witness ==
    /\ variant \in {"main", "p1"} /\ hist.nonJson /\ ~apiThrew
    /\ hist.listFetches[1] = 1 /\ hist.listFetches[2] = 1
    /\ totalSaved = 1 /\ Len(sink) = 1
    /\ pc = IF variant = "main" THEN "fallback" ELSE "done"

\* C24: collectFromApi makes at most 3 attempts per listing page; an answer
\* of 500 or above or a thrown request uses up one attempt; when the third
\* attempt has not brought a page to process, the collector returns the
\* count saved so far without throwing.
C24_ThreeAttemptsPerPage ==
    [][(variant \in {"main", "p1"}) =>
         ((\A p \in DOMAIN hist.listFetches : hist'.listFetches[p] <= MAX_ATTEMPTS)
          /\ ((pc = "api_fetch" /\ pc' = "api_fetch")
                => (attempt' = attempt + 1 /\ hist'.lastStatus \in {"5xx", "throw"}))
          /\ ((pc = "api_fetch" /\ attempt = MAX_ATTEMPTS - 1 /\ pc' # "api_batch")
                => (totalSaved' = totalSaved + saved
                    /\ ~apiThrew'
                    /\ pc' = (IF variant = "main" THEN "fallback" ELSE "done"))))]_vars

\* the listing source answered 5xx three times and the collector returned
C24_Witness ==
    /\ variant \in {"main", "p1"} /\ srvMode = "down"
    /\ hist.listFetches[1] = MAX_ATTEMPTS /\ ~apiThrew /\ totalSaved = 0
    /\ pc = IF variant = "main" THEN "fallback" ELSE "done"

C30_ClearanceNotFromJobType ==
    (pc = "done"
     /\ \A src \in {srcJob, srcDetail, srcAdditional} :
           src.security_clearance = <<>> /\ src.blockClearance = <<>>)
    => resolved.security_clearance = <<>>

\* C29 (as claimed): the list of candidate job URLs of the sitemap strategy
\* never holds more than twice the quota handed to the strategy.
C29_UrlsWithinTwiceQuota ==
    (variant = "main" /\ smWanted # NULL) => Len(urls) <= 2 * smWanted

\* C29 (amended): the list never holds more than three times the quota less
\* one: a child sitemap is read only while the list is shorter than twice
\* the quota, and adds at most the quota.
C29_UrlsWithinThriceQuota ==
    (variant = "main" /\ smWanted # NULL) => Len(urls) <= 3 * smWanted - 1

\* three child sitemaps were read and the list holds more than twice the quota
C29_Witness ==
    /\ variant = "main" /\ pc = "sm_jobs"
    /\ smWanted = 2 /\ Len(urls) = 3 * smWanted - 1

\* C28: at every moment of collectFromApi at most CONCURRENCY items (12 in
\* main.js, 15 in part_001) have their enrichment in flight, and the mappers
\* of a chunk start only when no mapper of the previous chunk is in flight
\* and each of its results has been persisted or dropped.
C28_InFlightWithinWidth ==
    [][/\ inFlight' <= (IF variant = "main" THEN CONCURRENCY ELSE CONCURRENCY_P1)
       /\ (inFlight' > inFlight) => (inFlight = 0 /\ results = <<>>)]_vars

\* the second chunk of a page of main.js is in flight after the twelve
\* records of the first were persisted
C28_Witness ==
    /\ variant = "main" /\ pc = "api_wait"
    /\ json.len > CONCURRENCY /\ batch = 0 /\ inFlight = json.len - CONCURRENCY
    /\ Len(sink) = CONCURRENCY

\* C31: in the crawlers a job page is terminal: handling a DETAIL request
\* never adds a request to the queue and hands at most one record to the
\* dataset.
C31_DetailIsTerminal ==
    [][/\ \A r \in requestQueue \ requestQueue' :
            r.label = "DETAIL" =>
                (/\ requestQueue' \subseteq requestQueue
                 /\ enqueued' = enqueued
                 /\ Len(sink') <= Len(sink) + 1)
       /\ \A h \in active \ active' :
            h.req.label = "DETAIL" =>
                (/\ requestQueue' = requestQueue
                 /\ enqueued' = enqueued
                 /\ sink' = sink
                 /\ active' = active \ {h})]_vars

\* a crawl with detail pages has ended after a job page was handled
C31_Witness ==
    /\ variant \in {"c1", "c3"} /\ pc = "done" /\ collectDetails
    /\ \E i \in 1..Len(sink) : sink[i].source = "detail"
    /\ \E r \in enqueued : r.label = "DETAIL"

\* C32: in a CheerioCrawler run with collectDetails = true the quota is
\* overshot by less than the concurrency width: saved never exceeds
\* RESULTS_WANTED + (maxConcurrency - 1).
C32_OvershootWithinWidth ==
    (variant \in {"c1", "c3"} /\ collectDetails)
        => saved <= RESULTS_WANTED + (MAX_CONCURRENCY - 1)

\* a finished crawl whose overshoot is exactly maxConcurrency - 1
C32_Witness ==
    /\ variant \in {"c1", "c3"} /\ collectDetails /\ pc = "done"
    /\ saved = RESULTS_WANTED + (MAX_CONCURRENCY - 1)
    /\ Len(sink) = saved

\* C33: in the third program's LIST handler, whenever saved >= RESULTS_WANTED
\* at the moment the page's links or jobs are sliced to the remaining quota,
\* the handler enqueues no DETAIL request and pushes no record.
C33_NothingPastQuota ==
    [][\A h \in active \ active' :
          (variant = "c3" /\ h.at = "json" /\ saved >= RESULTS_WANTED) =>
              (/\ sink' = sink
               /\ \A r \in enqueued' \ enqueued : r.label # "DETAIL")]_vars

\* C34: in the crawlers no job URL is pushed to the dataset more than once
\* in a run, also when the same link shows on two listing pages or under two
\* start URLs and collectDetails = false.
C34_NoUrlPushedTwice ==
    variant \in {"c1", "c3"} =>
        \A i, j \in 1..Len(sink) : sink[i].url = sink[j].url => i = j

InApiStrategy == pc \in {"api_head", "api_fetch", "api_wait", "api_batch", "api_map",
                         "api_persist", "api_next"}
InSmStrategy == pc \in {"sm_index", "sm_child", "sm_jobs"}
SinkWrites(sources) == Cardinality({i \in 1..Len(sink) : sink[i].source \in sources})

\* C35: in the API-then-sitemap pipeline the seen set only grows and a
\* strategy's saved counter only increases, by exactly 1 per sink write;
\* between sink writes the identity key (url, else id) of every persisted
\* record is in seen and the running strategy's saved equals the number of
\* sink writes it has made.
C35_SeenAndSavedTrackSink ==
    /\ [](variant = "main" =>
            /\ \A i \in 1..Len(sink) :
                    RecKey(sink[i]) # <<"none", 0>> => RecKey(sink[i]) \in seen
            /\ InApiStrategy => saved = SinkWrites({"api"})
            /\ InSmStrategy => saved = SinkWrites({"html", "jsonld"}))
    /\ [][variant = "main" =>
            /\ seen \subseteq seen'
            /\ (sink' # sink) => (sink' = Append(sink, sink'[Len(sink')]) /\ saved' = saved + 1)
            /\ (saved' # saved) =>
                   \/ saved' = saved + 1 /\ Len(sink') = Len(sink) + 1
                   \/ saved' = 0 /\ pc' \in {"fallback", "done", "failed"}]_vars

\* C36: a candidate that is not persisted leaves the collection state as
\* it was: an API result whose key is already in seen, a sitemap URL already
\* in seen, and a sitemap URL whose page fetch yields nothing each leave
\* seen, saved and the sink unchanged.
C36_SkippedCandidateChangesNothing ==
    [][variant = "main" =>
        /\ (pc = "api_persist" /\ results # <<>> /\ ~QuotaMet(saved, RESULTS_WANTED)
               /\ ApiKey(Head(results)) \in seen)
              => (results' = Tail(results) /\ seen' = seen /\ saved' = saved /\ sink' = sink)
        /\ (pc = "sm_jobs" /\ urlIdx <= Len(urls) /\ ~QuotaMet(saved, smWanted)
               /\ SmKey(urls[urlIdx]) \in seen)
              => (urlIdx' = urlIdx + 1 /\ seen' = seen /\ saved' = saved /\ sink' = sink)
        /\ (pc = "sm_jobs" /\ urlIdx' = urlIdx + 1 /\ sink' = sink)
              => (seen' = seen /\ saved' = saved)]_vars

\* the sitemap loop has passed one URL the API strategy had saved and one
\* whose page yielded nothing, and has written no record
C36_Witness ==
    /\ variant = "main" /\ pc = "sm_jobs" /\ urlIdx = 3
    /\ SmKey(urls[1]) \in seen /\ SmKey(urls[2]) \notin seen
    /\ saved = 0 /\ Len(sink) = 1 /\ sink[1].source = "api"

\* C37: for a listing-page request the class of a thrown transport error
\* (of the transient set ECONNRESET / proxy / 595, or not) has no effect on
\* control flow: every thrown error is retried until 3 attempts are used,
\* and the third ends the strategy.
C37_ErrorClassIgnored ==
    [][(variant \in {"main", "p1"} /\ pc = "api_fetch" /\ hist'.thrown # "none") =>
          IF attempt + 1 < MAX_ATTEMPTS
          THEN pc' = "api_fetch" /\ attempt' = attempt + 1 /\ page' = page
          ELSE pc' \in {"fallback", "done"} /\ ~apiThrew']_vars

\* an error outside the transient set was thrown by the first attempt and
\* the second attempt is due
C37_Witness ==
    /\ variant \in {"main", "p1"} /\ pc = "api_fetch" /\ attempt = 1
    /\ hist.thrown = "other"

\* C38: fetch failures inside the sitemap strategy are contained: a failing
\* index request makes the strategy return 0 without throwing, a failing or
\* blocked child sitemap is skipped and the remaining child sitemaps are
\* still requested, a failing job page is skipped and the remaining
\* candidate URLs are still processed.
C38_SitemapFailuresContained ==
    [][variant = "main" =>
        /\ (pc = "sm_index" /\ hist'.smFailures # hist.smFailures)
              => (pc' = "done" /\ totalSaved' = totalSaved /\ sink' = sink)
        /\ (pc = "sm_child" /\ hist'.smFailures # hist.smFailures)
              => (pc' = "sm_child" /\ urls' = urls /\ jobSitemaps' = jobSitemaps - 1)
        /\ (pc = "sm_child" /\ jobSitemaps > 0 /\ ~UrlCapReached(Len(urls), smWanted))
              => hist'.smFetches = hist.smFetches + 1
        /\ (pc = "sm_jobs" /\ hist'.smFailures # hist.smFailures)
              => (pc' = "sm_jobs" /\ urlIdx' = urlIdx + 1 /\ urls' = urls)
        /\ (pc = "sm_jobs" /\ urlIdx <= Len(urls) /\ ~QuotaMet(saved, smWanted)
               /\ SmKey(urls[urlIdx]) \notin seen)
              => hist'.smFetches = hist.smFetches + 1
        /\ InSmStrategy => pc' # "failed"]_vars

\* the first child sitemap and the first job page failed, the child
\* sitemaps after it were read and the job page after it was saved
C38_Witness ==
    /\ variant = "main" /\ pc = "sm_jobs"
    /\ hist.smFailures = 2 /\ hist.smFetches = 6
    /\ Len(urls) = 2 /\ urlIdx = 3 /\ saved = 1 /\ Len(sink) = 1

\* C39: when every issued request eventually completes, every run of the
\* API-then-sitemap pipeline terminates, whatever the responses are (a
\* listing whose links.next is always set included): the bootstrap loop, the
\* retry loop of a page, the pagination loop, the batch loop and the sitemap
\* loops are all bounded.
C39_PipelineTerminates == <>(pc \in {"done", "failed"})

\* a run that ended without filling the quota after the listing was paged
\* through to the page budget, each page naming a next one, and the sitemap
\* strategy had run
C39_Witness ==
    /\ variant = "main" /\ pc = "done"
    /\ MAX_PAGES = MaxPageBudget /\ hist.listFetches[MAX_PAGES] >= 1
    /\ hist.smFetches >= 2
    /\ Len(sink) < RESULTS_WANTED
=============================================================================
